---- MODULE Spec2Model ----
(***************************************************************************)
(* Model of the index-router: lib/router.js (class Router).                *)
(*                                                                         *)
(* Strings that the code inspects character by character (paths, URLs,     *)
(* attribute values) are sequences of one-character strings.  JavaScript   *)
(* values are records tagged with their kind.  A promise is a record with  *)
(* a state ("pending", "fulfilled", "rejected") and, when fulfilled, a     *)
(* value.                                                                  *)
(*                                                                         *)
(* The handlers of the hosting entry point keep Routers in a pool; a       *)
(* Router of a pool is represented by the arguments it was constructed     *)
(* with.                                                                   *)
(***************************************************************************)
EXTENDS Integers, Sequences, FiniteSets, TLC

VARIABLES
    manifestPromise,   \* this._manifestPromise
    configPromise,     \* this._configPromise
    indexesPromise,    \* this._indexesPromise
    indexFetch,        \* the promises fetchIndexes hands to Promise.all, per app
    fetches,           \* number of fetch(url) calls for manifest.json and config.json
    indexFetches,      \* number of fetch(url) calls for <app>/index.html, per app
    upstream,          \* what each fetch(url) call that has settled came back with
    requests,          \* the route() calls: position, arguments, locals, response
    routers,           \* the pool of each handler: const routers = {}
    constructed,       \* number of new Router(...) calls of each handler, per pool key
    handled            \* the last invocation of a handler and the Router it routed with

vars == <<manifestPromise, configPromise, indexesPromise, indexFetch,
          fetches, indexFetches, upstream, requests, routers, constructed, handled>>

\* the state of the Router and the state of the handlers
routerVars == <<manifestPromise, configPromise, indexesPromise, indexFetch,
                fetches, indexFetches, upstream, requests>>
poolVars == <<routers, constructed, handled>>

(***************************************************************************)
(* Bounds                                                                  *)
(***************************************************************************)
NumReq == 2

Reqs == 1..NumReq

(***************************************************************************)
(* Program constants                                                       *)
(***************************************************************************)
DefaultClientAge == 60
DefaultCacheAge == 300
ErrorClientAge == 10

\* "https://cdn/" and "https://api/"
assetsUrl == <<"h","t","t","p","s",":","/","/","c","d","n","/">>
apiUrl == <<"h","t","t","p","s",":","/","/","a","p","i","/">>

(***************************************************************************)
(* Characters and strings                                                  *)
(***************************************************************************)
UpperCase == <<"A","B","C","D","E","F","G","H","I","J","K","L","M",
               "N","O","P","Q","R","S","T","U","V","W","X","Y","Z">>
LowerCase == <<"a","b","c","d","e","f","g","h","i","j","k","l","m",
               "n","o","p","q","r","s","t","u","v","w","x","y","z">>
Digits == {"0","1","2","3","4","5","6","7","8","9"}

Range(s) == {s[i] : i \in DOMAIN s}

\* [A-Za-z0-9]
AlphaNum == Range(UpperCase) \cup Range(LowerCase) \cup Digits

\* the characters "." of a regular expression does not match
LineTerminators == {"\n", "\r"}

\* canonicalisation of the /i flag on the characters of the model
Canonicalize(c) ==
    IF \E i \in DOMAIN LowerCase : LowerCase[i] = c
    THEN UpperCase[CHOOSE i \in DOMAIN LowerCase : LowerCase[i] = c]
    ELSE c

StartsWith(s, p) == Len(s) >= Len(p) /\ SubSeq(s, 1, Len(p)) = p

EndsWithNoCase(s, p) ==
    /\ Len(s) >= Len(p)
    /\ \A i \in 1..Len(p) :
         Canonicalize(s[Len(s) - Len(p) + i]) = Canonicalize(p[i])

NoLineTerminator(s) == \A i \in DOMAIN s : s[i] \notin LineTerminators

(***************************************************************************)
(* JavaScript values                                                       *)
(***************************************************************************)
Undefined == [kind |-> "undefined"]

Str(chars) == [kind |-> "string", chars |-> chars]

Null == [kind |-> "null"]

\* String(null)
NullString == <<"n","u","l","l">>

\* String(undefined)
UndefinedString == <<"u","n","d","e","f","i","n","e","d">>

\* the string a value becomes in a string concatenation
StringOf(v) ==
    IF v.kind = "string" THEN v.chars
    ELSE IF v.kind = "undefined" THEN UndefinedString
    ELSE IF v.kind = "null" THEN NullString
    ELSE <<"[","o","b","j","e","c","t","]">>

\* Object.assign(a, b) on property maps: the keys of b win
Assign(a, b) ==
    [k \in (DOMAIN a) \cup (DOMAIN b) |-> IF k \in DOMAIN b THEN b[k] ELSE a[k]]

EmptyProps == [k \in {} |-> Undefined]

\* the own enumerable properties Object.assign copies from a source value
OwnProps(v) ==
    IF v.kind = "object" THEN v.props
    ELSE IF v.kind = "string"
         THEN [k \in {ToString(i) : i \in 0..(Len(v.chars) - 1)} |->
                 Str(<<v.chars[(CHOOSE i \in 0..(Len(v.chars) - 1) : ToString(i) = k) + 1]>>)]
    ELSE EmptyProps

Pending == [state |-> "pending"]
Rejected == [state |-> "rejected"]
Fulfilled(v) == [state |-> "fulfilled", value |-> v]
Settled(p) == p.state # "pending"

(***************************************************************************)
(* Regular expressions of lib/router.js                                    *)
(***************************************************************************)
\* length of the longest run of [A-Za-z0-9] in s starting at position i
RECURSIVE AlphaNumRun(_, _)
AlphaNumRun(s, i) ==
    IF i <= Len(s) /\ s[i] \in AlphaNum THEN 1 + AlphaNumRun(s, i + 1) ELSE 0

\* a plausible slip: the pattern without its end, /^\/([A-Za-z0-9]+)(.*)/
pathPattern_noEnd(path) ==
    LET n == AlphaNumRun(path, 2)
        rest == SubSeq(path, n + 2, Len(path))
    IN  IF Len(path) >= 2 /\ path[1] = "/" /\ n >= 1
        THEN [matched |-> TRUE,
              app |-> SubSeq(path, 2, n + 1),
              appPath |-> IF rest = <<>> THEN Undefined ELSE Str(rest)]
        ELSE [matched |-> FALSE]

\* pathPattern = /^\/([A-Za-z0-9]+)(\/.*)?$/ : pathPattern.exec(path), as
\* [matched, app (group 1), appPath (group 2, Undefined when absent)]
pathPattern(path) ==
    LET n == AlphaNumRun(path, 2)
        rest == SubSeq(path, n + 2, Len(path))
    IN  IF /\ Len(path) >= 2
           /\ path[1] = "/"
           /\ n >= 1
           /\ (rest = <<>> \/ (rest[1] = "/" /\ NoLineTerminator(rest)))
        THEN [matched |-> TRUE,
              app |-> SubSeq(path, 2, n + 1),
              appPath |-> IF rest = <<>> THEN Undefined ELSE Str(rest)]
        ELSE [matched |-> FALSE]

\* a plausible slip: the pattern without its /i flag
appcachePattern_caseSensitive(s) ==
    /\ Len(s) >= 9
    /\ SubSeq(s, Len(s) - 8, Len(s)) = <<".","a","p","p","c","a","c","h","e">>
    /\ NoLineTerminator(s)

\* appcachePattern = /^.*\.appcache$/i : appcachePattern.test(s)
appcachePattern(s) ==
    /\ EndsWithNoCase(s, <<".","a","p","p","c","a","c","h","e">>)
    /\ NoLineTerminator(s)

\* linkPattern = /^(?!(?:https?:)?\/)/i : linkPattern.test(s)
linkPattern(s) ==
    LET up == [i \in DOMAIN s |-> Canonicalize(s[i])]
    IN  ~ ( \/ StartsWith(up, <<"/">>)
            \/ StartsWith(up, <<"H","T","T","P",":","/">>)
            \/ StartsWith(up, <<"H","T","T","P","S",":","/">>) )

\* configSrcPattern = /.*\/config\.js/ : configSrcPattern.test(s)
configSrcPattern(s) ==
    LET pat == <<"/","c","o","n","f","i","g",".","j","s">>
    IN  \E i \in 1..Len(s) :
          /\ i + Len(pat) - 1 <= Len(s)
          /\ SubSeq(s, i, i + Len(pat) - 1) = pat

(***************************************************************************)
(* Upstream data: what manifest.json, config.json and <app>/index.html     *)
(* can hold.  App ids are strings; manifest.apps is an array of them.      *)
(***************************************************************************)
AppA == <<"a">>
AppB == <<"b">>
Apps == {AppA, AppB}

\* a manifest value { apps, default, config }
Manifest(apps, default, config) ==
    [kind |-> "object",
     props |-> [apps |-> [kind |-> "array", items |-> apps],
                default |-> Str(default),
                config |-> [kind |-> "object", props |-> config]]]

ManifestAB == Manifest(<<AppA, AppB>>, AppB, [version |-> Str(<<"1">>), k |-> Str(<<"m">>)])
ManifestB == Manifest(<<AppB>>, AppB, EmptyProps)
Manifests == {ManifestAB, ManifestB}

\* a global configuration value
GlobalConfig == [kind |-> "object", props |-> [k |-> Str(<<"x">>), idle |-> Str(<<"9">>)]]
GlobalConfigs == {GlobalConfig}

\* a global configuration that has its own assets_url and api_url
OwnUrlsConfig ==
    [kind |-> "object",
     props |-> [k |-> Str(<<"x">>),
                assets_url |-> Str(<<"/","/","o","/">>),
                api_url |-> Str(<<"/","/","p","/">>)]]

\* a global configuration that has its own target
OwnTargetConfig ==
    [kind |-> "object", props |-> [target |-> Str(<<"t">>), idle |-> Str(<<"9">>)]]

\* the global configurations the transformer is given
TransformConfigs == {GlobalConfig, OwnUrlsConfig, OwnTargetConfig}

\* the JSON value of the body of an error page ("No")
ErrorJson == Str(<<"N","o">>)

\* An HTML text is the sequence of its link/script elements, each with its
\* attributes and its content (a text), and the rest of its text.  The empty string
\* has no elements and no text.  throws marks a text the DOM builder raises
\* an exception on.
Element(tag, attrs, content) ==
    [tag |-> tag, attrs |-> attrs, content |-> [chars |-> content]]

Html(elems, text, throws) ==
    [kind |-> "string", elems |-> elems, text |-> text, throws |-> throws]

EmptyString == Html(<<>>, <<>>, FALSE)

\* <link href="a/s.css" rel="stylesheet"> <script src="/h/config.js">
\* <script src="//e/x.js"> <script src="a/app.js">
IndexA ==
    Html(<< Element("link", [href |-> <<"a","/","s",".","c","s","s">>,
                             rel |-> <<"s","t","y","l","e","s","h","e","e","t">>], <<>>),
            Element("script", [src |-> <<"/","h","/","c","o","n","f","i","g",".","j","s">>], <<>>),
            Element("script", [src |-> <<"/","/","e","/","x",".","j","s">>], <<>>),
            Element("script", [src |-> <<"a","/","a","p","p",".","j","s">>], <<>>) >>,
         <<>>, FALSE)

\* <script src="b/config.js"> <script>run()</script>
IndexB ==
    Html(<< Element("script", [src |-> <<"b","/","c","o","n","f","i","g",".","j","s">>], <<>>),
            Element("script", [k \in {} |-> <<>>], <<"r","u","n","(",")">>) >>,
         <<>>, FALSE)

Index(app) == IF app = AppA THEN IndexA ELSE IndexB

\* <link href="a/s.css"> <link href="/r.css"> <link href="//h/p.css"> <link href="https://h/x.css">
\* <link href="HTTP://h/u.css"> <link href="ftp://h/f.css"> <link href="data:x"> <link rel="x">
DocLinks ==
    Html(<< Element("link", [href |-> <<"a","/","s",".","c","s","s">>], <<>>),
            Element("link", [href |-> <<"/","r",".","c","s","s">>], <<>>),
            Element("link", [href |-> <<"/","/","h","/","p",".","c","s","s">>], <<>>),
            Element("link", [href |-> <<"h","t","t","p","s",":","/","/","h","/","x",".","c","s","s">>], <<>>),
            Element("link", [href |-> <<"H","T","T","P",":","/","/","h","/","u",".","c","s","s">>], <<>>),
            Element("link", [href |-> <<"f","t","p",":","/","/","h","/","f",".","c","s","s">>], <<>>),
            Element("link", [href |-> <<"d","a","t","a",":","x">>], <<>>),
            Element("link", [rel |-> <<"x">>], <<>>) >>,
         <<>>, FALSE)

\* <script src="a/app.js"> <script src="/h/config.js"> <script src="a/config.js"> <script src="config.js">
\* <script src="a/config.jsx"> <script src="a/config.js.map"> <script src="//e/x.js"> <script src="https://h/config.js">
\* <script>run()</script>
DocScripts ==
    Html(<< Element("script", [src |-> <<"a","/","a","p","p",".","j","s">>], <<>>),
            Element("script", [src |-> <<"/","h","/","c","o","n","f","i","g",".","j","s">>], <<>>),
            Element("script", [src |-> <<"a","/","c","o","n","f","i","g",".","j","s">>], <<>>),
            Element("script", [src |-> <<"c","o","n","f","i","g",".","j","s">>], <<>>),
            Element("script", [src |-> <<"a","/","c","o","n","f","i","g",".","j","s","x">>], <<>>),
            Element("script", [src |-> <<"a","/","c","o","n","f","i","g",".","j","s",".","m","a","p">>], <<>>),
            Element("script", [src |-> <<"/","/","e","/","x",".","j","s">>], <<>>),
            Element("script", [src |-> <<"h","t","t","p","s",":","/","/","h","/","c","o","n","f","i","g",".","j","s">>], <<>>),
            Element("script", [k \in {} |-> <<>>], <<"r","u","n","(",")">>) >>,
         <<>>, FALSE)

\* a document without link and script elements
IndexPlain == Html(<<>>, <<"h","i">>, FALSE)

\* the documents the transformer is applied to
TransformDocs == {IndexA, IndexB, DocLinks, DocScripts}

\* the text of an error page
ErrorText == Html(<<>>, <<"N","o">>, FALSE)

\* a text the DOM builder fails on
BrokenHtml == Html(<<>>, <<"?">>, TRUE)

(***************************************************************************)
(* Upstream responses                                                      *)
(***************************************************************************)
\* fetch(url) rejects
NetworkError == [failed |-> TRUE]

\* fetch(url) has not settled
NoResponse == [failed |-> FALSE, ok |-> FALSE, none |-> TRUE]

\* fetch(url) resolves to a response; body is its text, json the value
\* the text parses to (Undefined when the text is not JSON)
Response(ok, body, json, parses) ==
    [failed |-> FALSE, ok |-> ok, body |-> body, json |-> json, parses |-> parses]

\* the text of a JSON document
JsonText == Html(<<>>, <<"{","}">>, FALSE)

JsonResponse(ok, value) == Response(ok, JsonText, value, TRUE)
TextResponse(ok, text) == Response(ok, text, Undefined, FALSE)

ManifestOutcomes ==
    {NetworkError, JsonResponse(FALSE, ErrorJson), TextResponse(FALSE, ErrorText)}
    \cup {JsonResponse(TRUE, m) : m \in Manifests}

ConfigOutcomes ==
    {NetworkError, JsonResponse(FALSE, ErrorJson), TextResponse(FALSE, ErrorText)}
    \cup {JsonResponse(TRUE, c) : c \in GlobalConfigs}

IndexOutcomes(app) ==
    {NetworkError, TextResponse(FALSE, ErrorText), TextResponse(TRUE, Index(app)),
     TextResponse(TRUE, EmptyString), TextResponse(TRUE, BrokenHtml)}

(***************************************************************************)
(* Router: fetching                                                        *)
(***************************************************************************)
Num(n) == [kind |-> "number", n |-> n]
Obj(props) == [kind |-> "object", props |-> props]

\* v[key]
Get(v, key) ==
    IF v.kind = "object" /\ key \in DOMAIN v.props THEN v.props[key] ELSE Undefined

\* Router._fetch: how the promise _fetch returns settles, given what
\* fetch(url) did.  res.json() rejects on a text that is not JSON.
_fetch(outcome, json) ==
    IF outcome.failed THEN Rejected
    ELSE IF json
         THEN IF outcome.parses THEN Fulfilled(outcome.json) ELSE Rejected
         ELSE Fulfilled(outcome.body)

\* Router.fetchManifest
fetchManifest(outcome) == _fetch(outcome, TRUE)

\* Router.fetchConfig
fetchConfig(outcome) ==
    LET config == _fetch(outcome, TRUE)
    IN  IF config.state = "fulfilled"
        THEN Fulfilled(Obj(Assign([assets_url |-> Str(assetsUrl), api_url |-> Str(apiUrl)],
                                  OwnProps(config.value))))
        ELSE Rejected

(***************************************************************************)
(* Router: responses                                                       *)
(***************************************************************************)
\* Router._createCacheResponse: the pieces of the header value, in order
_createCacheResponse(clientAge, cacheAge) ==
    LET part(key, value) ==
            IF value.kind = "undefined" THEN <<>>
            ELSE <<key, "=", IF value.kind = "number" THEN ToString(value.n)
                             ELSE "?">>
    IN  part("max-age", clientAge) \o <<", ">> \o part("s-max-age", cacheAge)

\* JSON.stringify({ error: message })
ErrorBody(message) == [kind |-> "json", value |-> [error |-> message]]

\* the options route works with: Object.assign({clientAge, cacheAge}, options)
routeOptions(options) ==
    Obj(Assign([clientAge |-> Num(DefaultClientAge), cacheAge |-> Num(DefaultCacheAge)],
               OwnProps(options)))

RedirectResponse(location, options) ==
    [statusCode |-> 301,
     headers |-> ("Location" :> location) @@
                 ("Cache-Control" :> _createCacheResponse(Get(options, "clientAge"),
                                                          Get(options, "cacheAge")))]

\* a plausible slip: the 404 built with both ages, like the 301 and the 200
NotFoundResponse_shared(message, options) ==
    [statusCode |-> 404,
     headers |-> ("Content-Type" :> "application/json") @@
                 ("Cache-Control" :> _createCacheResponse(Get(options, "clientAge"),
                                                          Get(options, "cacheAge"))),
     body |-> ErrorBody(message)]

NotFoundResponse(message, options) ==
    [statusCode |-> 404,
     headers |-> ("Content-Type" :> "application/json") @@
                 ("Cache-Control" :> _createCacheResponse(Get(options, "clientAge"), Undefined)),
     body |-> ErrorBody(message)]

ContentResponse(body, options) ==
    [statusCode |-> 200,
     headers |-> ("Content-Type" :> "text/html") @@
                 ("Cache-Control" :> _createCacheResponse(Get(options, "clientAge"),
                                                          Get(options, "cacheAge"))),
     body |-> body]

InternalErrorResponse ==
    [statusCode |-> 500,
     headers |-> ("Content-Type" :> "application/json") @@
                 ("Cache-Control" :> _createCacheResponse(Num(ErrorClientAge), Undefined)),
     body |-> ErrorBody("Internal error")]

(***************************************************************************)
(* Router: the HTML transformer                                            *)
(***************************************************************************)
\* element.getAttribute(attr)
getAttribute(element, attr) ==
    IF attr \in DOMAIN element.attrs THEN Str(element.attrs[attr]) ELSE Null

\* Router.relocate, on the sequence of elements of the document
relocate(elems, tag, attr) ==
    [i \in DOMAIN elems |->
        LET element == elems[i]
            src == getAttribute(element, attr)
        IN  IF element.tag = tag /\ linkPattern(StringOf(src))
            THEN [element EXCEPT !.attrs = Assign(@, attr :> (assetsUrl \o StringOf(src)))]
            ELSE element]

\* Router.patchConfig; configString is the text
\* "_app_config = " + JSON.stringify(config) + ";"
patchConfig(app, elems, config) ==
    LET configString == [assigned |-> "_app_config", json |-> config]
    IN  [i \in DOMAIN elems |->
            LET script == elems[i]
            IN  IF script.tag = "script"
                   /\ configSrcPattern(StringOf(getAttribute(script, "src")))
                THEN [script EXCEPT
                        !.attrs = [k \in (DOMAIN @) \ {"src"} |-> @[k]],
                        !.content = configString]
                ELSE script]

\* Router.transform: [threw |-> TRUE] or the serialised document
transform(app, html, config) ==
    IF html.throws THEN [threw |-> TRUE]
    ELSE [threw |-> FALSE,
          body |-> [html EXCEPT !.elems =
                      patchConfig(app,
                                  relocate(relocate(html.elems, "link", "href"),
                                           "script", "src"),
                                  config)]]

(***************************************************************************)
(* Router: state                                                           *)
(***************************************************************************)
\* the paths and options the callers pass to route
Root == <<"/">>
PathA == <<"/","a","/">>
PathB == <<"/","b","/">>
PathASub == <<"/","a","/","x">>
PathAAppcache == <<"/","a","/","x",".","a","p","p","c","a","c","h","e">>
PathAAppcacheUpper == <<"/","a","/","y","/","z",".","A","P","P","c","a","c","h","e">>
PathUnknown == <<"/","c","/">>
PathNoSlash == <<"/","a">>
PathEmpty == <<>>
PathRelative == <<"a","/">>
PathDoubleSlash == <<"/","/">>
PathDotted == <<"/","a",".","b","/">>
PathNewlineAppcache == <<"/","a","/","\n",".","a","p","p","c","a","c","h","e">>
PathHyphen == <<"/","a","-","b","/">>
PathUnknownNoSlash == <<"/","c">>
PathUnknownSub == <<"/","c","/","x">>

NoOptions == Undefined
ShortOptions == Obj([clientAge |-> Num(5), cacheAge |-> Num(7)])
ClientOnlyOptions == Obj([clientAge |-> Num(5)])
UndefinedAgeOptions == Obj([cacheAge |-> Undefined])

IdleRequest ==
    [pc |-> "idle", path |-> <<>>, options |-> Undefined, app |-> <<>>,
     html |-> Undefined, settled |-> "no", response |-> Undefined, after |-> {}]

Done(r) == requests[r].pc = "done"

(***************************************************************************)
(* The handlers and their pools of Routers                                 *)
(***************************************************************************)
\* the handler that keys its pool by the stage and the handler that keys it
\* by the md5 of assetsUrl, apiUrl and stage
Handlers == {"stage", "hash"}

\* const routers = {}
EmptyPool == [key \in {} |-> Undefined]

\* no handler has been invoked
NoInvocation == [handler |-> "none"]

\* the stages and the values of their stage variables ASSETS_URL and API_URL:
\* 'https://cdn/' and 'https://cdn/v2/', 'https://api/' and 'v2/https://api/'
Stages == {<<"d","e","v">>, <<"p","r","o","d">>}
AssetsUrls == {assetsUrl, assetsUrl \o <<"v","2","/">>}
ApiUrls == {apiUrl, <<"v","2","/">> \o apiUrl}

\* event.path: absent or '/a/'
EventPaths == {Undefined, Str(PathA)}

\* the events a handler is invoked with
Events ==
    {[stageVariables |-> [ASSETS_URL |-> assets, API_URL |-> api],
      requestContext |-> [stage |-> stage],
      path |-> path] :
        assets \in AssetsUrls, api \in ApiUrls, stage \in Stages, path \in EventPaths}

\* new Router(assetsUrl, apiUrl)
NewRouter(assets, api) == [_assetsUrl |-> assets, _apiUrl |-> api]

\* crypto.createHash('md5').update(a).update(b).update(c).digest('hex'): the
\* digest of the concatenation of the updates, different for different data
md5(data) == [md5 |-> data]

\* the pool key of the handler that hashes
hash(assets, api, stage) == md5(assets \o api \o stage)

\* routers[key] = router
Put(pool, key, value) ==
    [k \in (DOMAIN pool) \cup {key} |-> IF k = key THEN value ELSE pool[k]]

\* event.path ? event.path : '/'
eventPath(event) ==
    IF event.path.kind = "string" /\ event.path.chars # <<>>
    THEN event.path.chars
    ELSE Root

\* the body shared by the two handlers: the Router of the key is taken from
\* the pool, or constructed from the stage variables of the event and put
\* into the pool; then router.route(path)
getRouter(h, event, key) ==
    /\ IF key \in DOMAIN routers[h]
       THEN UNCHANGED <<routers, constructed>>
       ELSE LET _n == NewRouter(event.stageVariables.ASSETS_URL,
                                event.stageVariables.API_URL)
            IN  /\ routers' = [routers EXCEPT ![h] = Put(@, key, _n)]
                /\ constructed' = [constructed EXCEPT ![h] = Put(@, key, 1)]
    /\ handled' = [handler |-> h, event |-> event, key |-> key,
                   router |-> routers'[h][key], path |-> eventPath(event)]

\* exports.handler of the pool keyed by stage
handler_stage(event) ==
    /\ getRouter("stage", event, event.requestContext.stage)
    /\ UNCHANGED routerVars

\* exports.handler of the pool keyed by hash
handler_hash(event) ==
    /\ getRouter("hash", event, hash(event.stageVariables.ASSETS_URL,
                                     event.stageVariables.API_URL,
                                     event.requestContext.stage))
    /\ UNCHANGED routerVars

\* Router.constructor: both fetches are started, the indexes wait for the
\* manifest; the pools of the handlers are empty
Init ==
    /\ manifestPromise = Pending
    /\ configPromise = Pending
    /\ indexesPromise = Pending
    /\ indexFetch = [a \in Apps |-> [state |-> "none"]]
    /\ fetches = [manifest |-> 1, config |-> 1]
    /\ indexFetches = [a \in Apps |-> 0]
    /\ upstream = [manifest |-> NoResponse, config |-> NoResponse,
                   index |-> [a \in Apps |-> NoResponse]]
    /\ requests = [r \in Reqs |-> IdleRequest]
    /\ routers = [h \in Handlers |-> EmptyPool]
    /\ constructed = [h \in Handlers |-> EmptyPool]
    /\ handled = NoInvocation

(***************************************************************************)
(* Router: the upstream fetches settle                                     *)
(***************************************************************************)
\* Promise.all over the index fetches of the apps, then the reduce to a map
PromiseAll(fetch, apps) ==
    IF \E a \in apps : fetch[a].state = "rejected" THEN Rejected
    ELSE IF \A a \in apps : fetch[a].state = "fulfilled"
         THEN Fulfilled([a \in apps |-> fetch[a].value])
    ELSE Pending

\* Router.fetchIndexes(manifest), called when the manifest promise fulfils:
\* manifest.apps.map throws when manifest.apps is not an array
fetchIndexes(manifest) ==
    LET apps == Get(manifest, "apps")
    IN  IF apps.kind # "array"
        THEN /\ indexesPromise' = Rejected
             /\ UNCHANGED <<indexFetch, indexFetches>>
        ELSE /\ indexFetch' = [a \in Apps |->
                                 IF a \in Range(apps.items) THEN Pending ELSE indexFetch[a]]
             /\ indexFetches' = [a \in Apps |->
                                 IF a \in Range(apps.items) THEN indexFetches[a] + 1
                                 ELSE indexFetches[a]]
             /\ indexesPromise' = PromiseAll(indexFetch', Range(apps.items))

\* a plausible slip: a failed manifest fetch falls back to an empty manifest,
\* .catch(() => ({ apps: [], default: '', config: {} }))
ManifestSettles_fallback(outcome) ==
    /\ manifestPromise = Pending
    /\ manifestPromise' = IF fetchManifest(outcome).state = "fulfilled"
                          THEN fetchManifest(outcome)
                          ELSE Fulfilled(Manifest(<<>>, <<>>, EmptyProps))
    /\ fetchIndexes(manifestPromise'.value)
    /\ upstream' = [upstream EXCEPT !.manifest = outcome]
    /\ UNCHANGED <<configPromise, fetches, requests>>
    /\ UNCHANGED poolVars

\* the manifest fetch of the constructor settles, and with it the
\* .then(manifest => this.fetchIndexes(manifest)) chained on it
ManifestSettles(outcome) ==
    /\ manifestPromise = Pending
    /\ manifestPromise' = fetchManifest(outcome)
    /\ IF manifestPromise'.state = "fulfilled"
       THEN fetchIndexes(manifestPromise'.value)
       ELSE /\ indexesPromise' = Rejected
            /\ UNCHANGED <<indexFetch, indexFetches>>
    /\ upstream' = [upstream EXCEPT !.manifest = outcome]
    /\ UNCHANGED <<configPromise, fetches, requests>>
    /\ UNCHANGED poolVars

\* the config fetch of the constructor settles
ConfigSettles(outcome) ==
    /\ configPromise = Pending
    /\ configPromise' = fetchConfig(outcome)
    /\ upstream' = [upstream EXCEPT !.config = outcome]
    /\ UNCHANGED <<manifestPromise, indexesPromise, indexFetch, fetches,
                   indexFetches, requests>>
    /\ UNCHANGED poolVars

\* one of the index fetches of fetchIndexes settles
IndexSettles(app, outcome) ==
    /\ indexFetch[app] = Pending
    /\ indexFetch' = [indexFetch EXCEPT ![app] = _fetch(outcome, FALSE)]
    /\ indexesPromise' =
         IF indexesPromise = Pending
         THEN PromiseAll(indexFetch',
                         Range(Get(manifestPromise.value, "apps").items))
         ELSE indexesPromise
    /\ upstream' = [upstream EXCEPT !.index[app] = outcome]
    /\ UNCHANGED <<manifestPromise, configPromise, fetches, indexFetches, requests>>
    /\ UNCHANGED poolVars

(***************************************************************************)
(* Router: route                                                           *)
(***************************************************************************)
\* what a stretch of _route between two awaits ends with
Returns(response) == [does |-> "return", response |-> response]
Throws == [does |-> "throw"]
Awaits(pc, app, html) == [does |-> "await", pc |-> pc, app |-> app, html |-> html]

\* a plausible slip: no catch, what _route throws rejects the promise of route
route_rethrow(result) ==
    IF result.does = "return"
    THEN [settled |-> "resolved", response |-> result.response]
    ELSE [settled |-> "rejected", response |-> Undefined]

\* Router.route, the try/catch around _route: what the promise of route
\* settles to once _route has returned or thrown
route(result) ==
    IF result.does = "return"
    THEN [settled |-> "resolved", response |-> result.response]
    ELSE [settled |-> "resolved", response |-> InternalErrorResponse]

\* request r goes on as the stretch of _route it has just run says
Continue(r, result) ==
    requests' = [requests EXCEPT ![r] =
        IF result.does = "await"
        THEN [@ EXCEPT !.pc = result.pc, !.app = result.app, !.html = result.html]
        ELSE [@ EXCEPT !.pc = "done",
                       !.settled = route(result).settled,
                       !.response = route(result).response]]

\* a plausible slip: every call starts its own manifest fetch
Call_refetch(r, path, options) ==
    /\ requests[r].pc = "idle"
    /\ requests' = [requests EXCEPT ![r] =
                      [@ EXCEPT !.pc = "manifest", !.path = path,
                                !.options = routeOptions(options),
                                !.after = {q \in Reqs : Done(q)}]]
    /\ fetches' = [fetches EXCEPT !.manifest = @ + 1]
    /\ UNCHANGED <<manifestPromise, configPromise, indexesPromise, indexFetch,
                   indexFetches, upstream>>
    /\ UNCHANGED poolVars

\* route(path, options) is called: the options are completed and _route
\* runs up to   await this._manifestPromise
Call(r, path, options) ==
    /\ requests[r].pc = "idle"
    /\ requests' = [requests EXCEPT ![r] =
                      [@ EXCEPT !.pc = "manifest", !.path = path,
                                !.options = routeOptions(options),
                                !.after = {q \in Reqs : Done(q)}]]
    /\ UNCHANGED <<manifestPromise, configPromise, indexesPromise, indexFetch,
                   fetches, indexFetches, upstream>>
    /\ UNCHANGED poolVars

\* a plausible slip: the redirect of '/' goes to the first app of the manifest
rootRedirect_firstApp(manifest, options) ==
    IF Get(manifest, "apps").kind # "array" THEN Throws
    ELSE Returns(RedirectResponse(
             <<"/">> \o Get(manifest, "apps").items[1] \o <<"/">>, options))

\* Router._route, the branch of the path '/'
rootRedirect(manifest, options) ==
    Returns(RedirectResponse(
        <<"/">> \o StringOf(Get(manifest, "default")) \o <<"/">>, options))

\* a plausible change: a sub-path of the app is redirected to the fragment
\* '/<app>/#<sub>' instead of being served
_routeIndex_redirect(app, appPath, options) ==
    IF Len(appPath) > 1
    THEN Returns(RedirectResponse(
             <<"/">> \o app \o <<"/","#">> \o SubSeq(appPath, 2, Len(appPath)), options))
    ELSE Awaits("indexes", app, Undefined)

\* Router._route, the branch that is left for every other path of a known
\* app: const html = await this.getSiteIndex(app)
_routeIndex(app, appPath, options) == Awaits("indexes", app, Undefined)

\* a plausible slip: the redirect of '/<app>' goes to '/<app>' itself
appRedirect_noSlash(app, options) ==
    Returns(RedirectResponse(<<"/">> \o app, options))

\* Router._route, the branch of a path '/<app>' without a trailing part
appRedirect(app, options) ==
    Returns(RedirectResponse(<<"/">> \o app \o <<"/">>, options))

\* a plausible slip: the trailing-slash redirect placed before the check of
\* manifest.apps
_routePath_lateMembership(manifest, path, options) ==
    LET match == pathPattern(path)
        apps == Get(manifest, "apps")
    IN  IF path = Root
        THEN rootRedirect(manifest, options)
        ELSE IF ~ match.matched
        THEN Returns(NotFoundResponse("Invalid path", options))
        ELSE IF match.appPath.kind = "undefined"
        THEN appRedirect(match.app, options)
        ELSE IF apps.kind # "array"
        THEN Throws
        ELSE IF ~ \E i \in DOMAIN apps.items : apps.items[i] = match.app
        THEN Returns(NotFoundResponse("Application not found", options))
        ELSE IF appcachePattern(match.appPath.chars)
        THEN Returns(NotFoundResponse("Application cache not found", options))
        ELSE _routeIndex(match.app, match.appPath.chars, options)

\* Router._route from the manifest to   await this._indexesPromise   in
\* getSiteIndex: the decision on the path
_routePath(manifest, path, options) ==
    LET match == pathPattern(path)
        apps == Get(manifest, "apps")
    IN  IF path = Root
        THEN rootRedirect(manifest, options)
        ELSE IF ~ match.matched
        THEN Returns(NotFoundResponse("Invalid path", options))
        ELSE IF apps.kind # "array"
        THEN Throws
        ELSE IF ~ \E i \in DOMAIN apps.items : apps.items[i] = match.app
        THEN Returns(NotFoundResponse("Application not found", options))
        ELSE IF match.appPath.kind = "undefined"
        THEN appRedirect(match.app, options)
        ELSE IF appcachePattern(match.appPath.chars)
        THEN Returns(NotFoundResponse("Application cache not found", options))
        ELSE _routeIndex(match.app, match.appPath.chars, options)

\* a plausible slip: the config awaited together with the manifest,
\* await Promise.all([this._manifestPromise, this._configPromise])
AfterManifest_awaitsConfig(r) ==
    /\ requests[r].pc = "manifest"
    /\ Settled(manifestPromise)
    /\ Continue(r, IF manifestPromise.state = "rejected" \/ configPromise.state = "rejected"
                   THEN Throws
                   ELSE _routePath(manifestPromise.value, requests[r].path,
                                   requests[r].options))
    /\ UNCHANGED <<manifestPromise, configPromise, indexesPromise, indexFetch,
                   fetches, indexFetches, upstream>>
    /\ UNCHANGED poolVars

\* _route resumes from   await this._manifestPromise
AfterManifest(r) ==
    /\ requests[r].pc = "manifest"
    /\ Settled(manifestPromise)
    /\ Continue(r, IF manifestPromise.state = "rejected" THEN Throws
                   ELSE _routePath(manifestPromise.value, requests[r].path,
                                   requests[r].options))
    /\ UNCHANGED <<manifestPromise, configPromise, indexesPromise, indexFetch,
                   fetches, indexFetches, upstream>>
    /\ UNCHANGED poolVars

\* a plausible slip: the index compared with undefined only,
\* if (index === undefined), so that an empty document passes
getSiteIndex_emptyPasses(indexes, app) ==
    LET index == IF app \in DOMAIN indexes THEN indexes[app] ELSE Undefined
    IN  IF index.kind = "undefined"
        THEN Throws
        ELSE Awaits("config", app, index)

\* Router.getSiteIndex from   await this._indexesPromise   on, then _route
\* up to   await this._configPromise.then(...)
getSiteIndex(indexes, app) ==
    LET index == IF app \in DOMAIN indexes THEN indexes[app] ELSE Undefined
    IN  IF index.kind = "undefined" \/ index = EmptyString
        THEN Throws
        ELSE Awaits("config", app, index)

\* getSiteIndex resumes from   await this._indexesPromise
AfterIndexes(r) ==
    /\ requests[r].pc = "indexes"
    /\ Settled(indexesPromise)
    /\ Continue(r, IF indexesPromise.state = "rejected" THEN Throws
                   ELSE getSiteIndex(indexesPromise.value, requests[r].app))
    /\ UNCHANGED <<manifestPromise, configPromise, indexesPromise, indexFetch,
                   fetches, indexFetches, upstream>>
    /\ UNCHANGED poolVars

\* a plausible slip: the global config assigned last, over manifest.config
effectiveConfig_globalWins(app, config, manifest) ==
    Obj(Assign(Assign([target |-> [kind |-> "array",
                                  items |-> << <<"/">> \o app \o <<"/">> >>]],
                      OwnProps(Get(manifest, "config"))),
               OwnProps(config)))

\* the configuration injected for app:
\* Object.assign({ target: ['/' + app + '/'] }, config, manifest.config)
effectiveConfig(app, config, manifest) ==
    Obj(Assign(Assign([target |-> [kind |-> "array",
                                  items |-> << <<"/">> \o app \o <<"/">> >>]],
                      OwnProps(config)),
               OwnProps(Get(manifest, "config"))))

\* Router._route from the configuration to the 200 response
_routeContent(manifest, app, html, config, options) ==
    LET body == transform(app, html, effectiveConfig(app, config, manifest))
    IN  IF body.threw THEN Throws
        ELSE Returns(ContentResponse(body.body, options))

\* a plausible slip: the call is only resumed when the config is there, as
\* with a wait on a signal that is raised on success only
AfterConfig_onlyFulfilled(r) ==
    /\ requests[r].pc = "config"
    /\ configPromise.state = "fulfilled"
    /\ Continue(r, _routeContent(manifestPromise.value, requests[r].app,
                                 requests[r].html, configPromise.value,
                                 requests[r].options))
    /\ UNCHANGED <<manifestPromise, configPromise, indexesPromise, indexFetch,
                   fetches, indexFetches, upstream>>
    /\ UNCHANGED poolVars

\* _route resumes from   await this._configPromise.then(...)
AfterConfig(r) ==
    /\ requests[r].pc = "config"
    /\ Settled(configPromise)
    /\ Continue(r, IF configPromise.state = "rejected" THEN Throws
                   ELSE _routeContent(manifestPromise.value, requests[r].app,
                                      requests[r].html, configPromise.value,
                                      requests[r].options))
    /\ UNCHANGED <<manifestPromise, configPromise, indexesPromise, indexFetch,
                   fetches, indexFetches, upstream>>
    /\ UNCHANGED poolVars

(***************************************************************************)
(* Specifications                                                          *)
(***************************************************************************)
\* the paths of the concurrent callers
CorePaths == {PathA, PathB, PathASub}

\* the paths and options of a single caller
AllPaths == {Root, PathA, PathB, PathASub, PathAAppcache, PathAAppcacheUpper,
             PathUnknown, PathNoSlash, PathEmpty, PathRelative, PathDoubleSlash,
             PathDotted, PathNewlineAppcache, PathHyphen, PathUnknownNoSlash,
             PathUnknownSub}
AllOptions == {NoOptions, ShortOptions, ClientOnlyOptions, UndefinedAgeOptions}

\* the options of the callers that are compared with each other
PairOptions == {NoOptions, ShortOptions}

Settle ==
    \/ \E outcome \in ManifestOutcomes : ManifestSettles(outcome)
    \/ \E outcome \in ConfigOutcomes : ConfigSettles(outcome)
    \/ \E app \in Apps : \E outcome \in IndexOutcomes(app) : IndexSettles(app, outcome)

Resume(r) == AfterManifest(r) \/ AfterIndexes(r) \/ AfterConfig(r)

\* concurrent callers on one Router
Next ==
    \/ Settle
    \/ \E r \in Reqs : \E path \in CorePaths : Call(r, path, NoOptions)
    \/ \E r \in Reqs : Resume(r)

Spec == Init /\ [][Next]_vars

\* the fetches settle: each one fails or succeeds; the document of an app
\* is a plain one or empty
SettleLive ==
    \/ \E outcome \in {NetworkError} \cup {JsonResponse(TRUE, m) : m \in Manifests} :
          ManifestSettles(outcome)
    \/ \E outcome \in {NetworkError, JsonResponse(TRUE, GlobalConfig)} :
          ConfigSettles(outcome)
    \/ \E app \in Apps :
          \E outcome \in {NetworkError, TextResponse(TRUE, IndexPlain),
                           TextResponse(TRUE, EmptyString)} :
             IndexSettles(app, outcome)

\* a step of the fetches or of the event loop: a fetch that was started
\* settles, or a call whose awaited promise has settled is resumed
Progress == SettleLive \/ \E r \in Reqs : Resume(r)

\* concurrent callers of '/a/' and '/' on one Router
NextLive ==
    \/ SettleLive
    \/ \E r \in Reqs : \E path \in {PathA, Root} : Call(r, path, NoOptions)
    \/ \E r \in Reqs : Resume(r)

\* the fetches and the event loop do not stop while one of them has a step
\* to take; nothing is assumed about when the callers call
Fairness == WF_vars(Progress)

SpecLive == Init /\ [][NextLive]_vars /\ Fairness

\* invocations of the two handlers, each with its own pool
NextPool ==
    \/ \E event \in Events : handler_stage(event)
    \/ \E event \in Events : handler_hash(event)

SpecPool == Init /\ [][NextPool]_vars

\* one caller, any path and options
NextPaths ==
    \/ Settle
    \/ \E path \in AllPaths : \E options \in AllOptions : Call(1, path, options)
    \/ Resume(1)

SpecPaths == Init /\ [][NextPaths]_vars

\* the first caller asks for '/a/', the others for '/a/x', with any options
NextPair ==
    \/ Settle
    \/ \E options \in PairOptions : Call(1, PathA, options)
    \/ \E r \in Reqs \ {1} : \E options \in PairOptions : Call(r, PathASub, options)
    \/ \E r \in Reqs : Resume(r)

SpecPair == Init /\ [][NextPair]_vars

\* one caller of '/a/' or '/b/' on a Router whose fetches all succeed, with
\* any of the documents and global configurations
NextTransform ==
    \/ \E m \in Manifests : ManifestSettles(JsonResponse(TRUE, m))
    \/ \E c \in TransformConfigs : ConfigSettles(JsonResponse(TRUE, c))
    \/ \E app \in Apps : \E doc \in TransformDocs :
          IndexSettles(app, TextResponse(TRUE, doc))
    \/ \E path \in {PathA, PathB} : Call(1, path, NoOptions)
    \/ Resume(1)

SpecTransform == Init /\ [][NextTransform]_vars

(***************************************************************************)
(* Properties                                                              *)
(***************************************************************************)
\* the upstream answered with a non-success status
NotOk(outcome) == outcome # NoResponse /\ ~ outcome.failed /\ ~ outcome.ok

\* the upstream answered with a success status
Ok(outcome) == outcome # NoResponse /\ ~ outcome.failed /\ outcome.ok

\* the manifest has been fetched and is a manifest
ManifestAvailable ==
    manifestPromise.state = "fulfilled" /\ manifestPromise.value \in Manifests

ManifestApps == Range(Get(manifestPromise.value, "apps").items)

\* '/<app>/'
AppRoot(app) == <<"/">> \o app \o <<"/">>

Status(r) == requests[r].response.statusCode

\* C1: the manifest, the global config and the index of each app are each
\* fetched at most once on one Router, however many route calls are made
\* and however they interleave: a caller never starts a second fetch.
C1_AtMostOneFetch ==
    /\ fetches.manifest <= 1
    /\ fetches.config <= 1
    /\ \A a \in Apps : indexFetches[a] <= 1

\* two overlapping callers of '/<app>/' were both served the document and
\* each resource was fetched once
C1_Witness ==
    \E r1, r2 \in Reqs :
        /\ r1 # r2
        /\ Done(r1) /\ Done(r2)
        /\ requests[r1].path = PathA /\ requests[r2].path = PathA
        /\ requests[r1].after = {} /\ requests[r2].after = {}
        /\ Status(r1) = 200 /\ Status(r2) = 200
        /\ fetches.manifest = 1 /\ fetches.config = 1 /\ indexFetches[AppA] = 1

\* C2: no failure of the manifest fetch is cached: a route call made after
\* an earlier call has returned, while the manifest fetch has failed, has
\* started a fresh manifest fetch (the fetch counter has increased again).
C2_ManifestFetchedAgain ==
    \A r \in Reqs :
        (/\ manifestPromise.state = "rejected"
         /\ requests[r].pc # "idle"
         /\ requests[r].after # {})
        => fetches.manifest >= 2

\* C3: a resource that fails on every attempt is attempted exactly 3 times
\* for each route('/<app>/') call that returns 500 because of it: 3
\* attempts for a first call, 6 once a second call made after it returned.
C3_ThreeAttemptsPerCall ==
    \A r \in Reqs :
        (/\ Done(r)
         /\ requests[r].html # Undefined
         /\ upstream.config = NetworkError)
        => /\ Status(r) = 500
           /\ fetches.config >= 3
           /\ (\E q \in requests[r].after : requests[q].html # Undefined)
                 => fetches.config = 6

\* C4: with apps A and B in the manifest, when the fetch of A's index has
\* failed and the fetch of B's index (and of the config) has succeeded,
\* route('/B/') returns 200 with B's document.
C4_OtherAppUnaffected ==
    \A r \in Reqs :
        (/\ Done(r)
         /\ requests[r].path = PathB
         /\ manifestPromise = Fulfilled(ManifestAB)
         /\ upstream.index[AppA] = NetworkError
         /\ upstream.index[AppB] = TextResponse(TRUE, Index(AppB))
         /\ Ok(upstream.config))
        => /\ Status(r) = 200
           /\ requests[r].html = Index(AppB)

\* C5: when the upstream has answered the manifest, config or index request
\* of a route('/<app>/') call with a non-success status, the call returns
\* 500 and the promise of that resource holds no value.
C5_NotOkIsFailure ==
    /\ NotOk(upstream.manifest) => manifestPromise.state # "fulfilled"
    /\ NotOk(upstream.config) => configPromise.state # "fulfilled"
    /\ \A r \in Reqs : \A a \in Apps :
        (/\ Done(r)
         /\ requests[r].path = AppRoot(a)
         /\ \/ NotOk(upstream.manifest)
            \/ NotOk(upstream.config)
            \/ NotOk(upstream.index[a]))
        => Status(r) = 500

\* the stretch of the request in which it failed: the manifest, the indexes
\* or the config it awaited was rejected, or the document could not be
\* transformed
Failed(r) ==
    \/ manifestPromise.state = "rejected"
    \/ requests[r].app # <<>> /\ indexesPromise.state = "rejected"
    \/ requests[r].html # Undefined /\ configPromise.state = "rejected"
    \/ requests[r].html # Undefined /\ requests[r].html.throws

\* C6: the promise of route never rejects: every finished call has resolved
\* to a response, a call that failed has resolved to status 500, and every
\* 500 is the same generic response with the body {"error":"Internal error"}.
C6_AlwaysAResponse ==
    \A r \in Reqs :
        Done(r) =>
            /\ requests[r].settled = "resolved"
            /\ Status(r) \in {200, 301, 404, 500}
            /\ Failed(r) => Status(r) = 500
            /\ Status(r) = 500 =>
                 /\ requests[r].response = InternalErrorResponse
                 /\ requests[r].response.body = ErrorBody("Internal error")

\* a call whose document could not be transformed resolved to the 500
C6_Witness ==
    \E r \in Reqs :
        /\ Done(r)
        /\ requests[r].html = BrokenHtml
        /\ configPromise.state = "fulfilled"
        /\ requests[r].settled = "resolved"
        /\ Status(r) = 500

\* path is '/<app>/<sub>' for an app of the manifest and a non-empty <sub>
\* that does not end in '.appcache'
IsSubPath(path, app) ==
    /\ app \in ManifestApps
    /\ StartsWith(path, AppRoot(app))
    /\ Len(path) > Len(AppRoot(app))
    /\ ~ EndsWithNoCase(path, <<".","a","p","p","c","a","c","h","e">>)

\* C7: with the manifest available, route('/<app>/<sub>') for an app of the
\* manifest and a non-empty non-appcache <sub> returns 301 with Location
\* '/<app>/#<sub>', never the document.
C7_SubPathRedirects ==
    \A r \in Reqs : \A a \in Apps :
        (/\ Done(r)
         /\ ManifestAvailable
         /\ IsSubPath(requests[r].path, a))
        => /\ Status(r) = 301
           /\ requests[r].response.headers["Location"] =
                AppRoot(a) \o <<"#">> \o
                SubSeq(requests[r].path, Len(AppRoot(a)) + 1, Len(requests[r].path))

\* everything route('/<app>/') needs came back and can be served
Servable(a) ==
    /\ ManifestAvailable
    /\ a \in ManifestApps
    /\ indexesPromise.state = "fulfilled"
    /\ indexesPromise.value[a] # EmptyString
    /\ ~ indexesPromise.value[a].throws
    /\ configPromise.state = "fulfilled"

IsAppcachePath(path, app) ==
    /\ app \in ManifestApps
    /\ StartsWith(path, AppRoot(app))
    /\ EndsWithNoCase(path, <<".","a","p","p","c","a","c","h","e">>)

\* C9: with the manifest available, a path '/<app>/<rest>' of an app of the
\* manifest that ends in '.appcache' in any letter case is answered 404,
\* never 200 or 301.
C9_AppcacheBlocked ==
    \A r \in Reqs : \A a \in Apps :
        (/\ Done(r)
         /\ ManifestAvailable
         /\ IsAppcachePath(requests[r].path, a))
        => Status(r) = 404

\* '/a/y/z.APPcache' was answered 404 while the document could be served
C9_Witness ==
    \E r \in Reqs :
        /\ Done(r)
        /\ requests[r].path = PathAAppcacheUpper
        /\ Servable(AppA)
        /\ Status(r) = 404

\* C10: with the manifest available, route('/') returns 301 with Location
\* '/<manifest.default>/', whatever the options and whatever has become of
\* the config and index fetches.
C10_RootRedirect ==
    \A r \in Reqs :
        (/\ Done(r)
         /\ ManifestAvailable
         /\ requests[r].path = Root)
        => /\ Status(r) = 301
           /\ requests[r].response.headers["Location"] =
                <<"/">> \o Get(manifestPromise.value, "default").chars \o <<"/">>

\* '/' was redirected to the default app 'b' of a manifest that lists 'a'
\* first, while the config fetch had failed
C10_Witness ==
    \E r \in Reqs :
        /\ Done(r)
        /\ requests[r].path = Root
        /\ manifestPromise = Fulfilled(ManifestAB)
        /\ configPromise.state = "rejected"
        /\ Status(r) = 301
        /\ requests[r].response.headers["Location"] = PathB

\* path is '/<id>' or '/<id>/<rest>' with an id of n letters and digits
HasShape(path, n) ==
    /\ n >= 1
    /\ Len(path) >= n + 1
    /\ path[1] = "/"
    /\ \A i \in 2..(n + 1) : path[i] \in AlphaNum
    /\ (Len(path) = n + 1 \/ path[n + 2] = "/")

\* path is '/<id>' or '/<id>/<rest>' for some non-empty id of letters and
\* digits
HasAppShape(path) == \E n \in 1..Len(path) : HasShape(path, n)

\* C11: once the manifest has been fetched, whatever it holds, every path
\* other than '/' that is not of the shape '/<app-id>' or
\* '/<app-id>/<rest>' is answered 404.
C11_MalformedPathNotFound ==
    \A r \in Reqs :
        (/\ Done(r)
         /\ manifestPromise.state = "fulfilled"
         /\ requests[r].path # Root
         /\ ~ HasAppShape(requests[r].path))
        => Status(r) = 404

\* '/a.b/' was answered 404 although 'a' is an app of the manifest
C11_Witness ==
    \E r \in Reqs :
        /\ Done(r)
        /\ requests[r].path = PathDotted
        /\ manifestPromise = Fulfilled(ManifestAB)
        /\ Status(r) = 404

\* C12: with the manifest available, every path '/<id>', '/<id>/' or
\* '/<id>/<rest>' whose well-formed id is not in manifest.apps is answered
\* 404: never a redirect, never a document.
C12_UnknownAppNotFound ==
    \A r \in Reqs : \A n \in 1..Len(requests[r].path) :
        (/\ Done(r)
         /\ ManifestAvailable
         /\ HasShape(requests[r].path, n)
         /\ SubSeq(requests[r].path, 2, n + 1) \notin ManifestApps)
        => Status(r) = 404

\* '/a' (no trailing slash) was answered 404 under a manifest without 'a'
C12_Witness ==
    \E r \in Reqs :
        /\ Done(r)
        /\ requests[r].path = PathNoSlash
        /\ manifestPromise = Fulfilled(ManifestB)
        /\ Status(r) = 404

\* C13: with the manifest available, route('/<app>') for an app of the
\* manifest returns 301 with Location '/<app>/'.
C13_AppRootRedirect ==
    \A r \in Reqs : \A a \in Apps :
        (/\ Done(r)
         /\ ManifestAvailable
         /\ a \in ManifestApps
         /\ requests[r].path = <<"/">> \o a)
        => /\ Status(r) = 301
           /\ requests[r].response.headers["Location"] = AppRoot(a)

\* '/a' was redirected to '/a/'
C13_Witness ==
    \E r \in Reqs :
        /\ Done(r)
        /\ requests[r].path = PathNoSlash
        /\ manifestPromise = Fulfilled(ManifestAB)
        /\ Status(r) = 301
        /\ requests[r].response.headers["Location"] = PathA

\* the elements of the document request r fetched and of the one it returned
InElems(r) == requests[r].html.elems
OutElems(r) == requests[r].response.body.elems

\* request r has returned a transformed document
Served(r) == Done(r) /\ Status(r) = 200

\* the element is a script whose content is the injected configuration
Patched(element) == "json" \in DOMAIN element.content

\* the configuration objects injected into the document request r returned
Injected(r) ==
    {OutElems(r)[i].content.json :
        i \in {k \in DOMAIN OutElems(r) : Patched(OutElems(r)[k])}}

\* C14: the configuration injected into a 200 response has assets_url
\* equal to the assetsUrl of the router and api_url equal to its apiUrl,
\* whatever the upstream config.json holds.
C14_ConfiguredUrlsInjected ==
    \A r \in Reqs :
        Served(r) =>
            \A config \in Injected(r) :
                /\ Get(config, "assets_url") = Str(assetsUrl)
                /\ Get(config, "api_url") = Str(apiUrl)

\* C15: the injected configuration holds, for every key of manifest.config,
\* the value of manifest.config; for every other key of the global config,
\* the value of the global config; and target ['/<app>/'] when neither has
\* a target.
C15_MergePrecedence ==
    \A r \in Reqs :
        (Served(r) /\ ManifestAvailable /\ Ok(upstream.config)) =>
            LET global == OwnProps(upstream.config.json)
                overrides == OwnProps(Get(manifestPromise.value, "config"))
            IN  \A config \in Injected(r) :
                    /\ \A k \in DOMAIN overrides : Get(config, k) = overrides[k]
                    /\ \A k \in (DOMAIN global) \ (DOMAIN overrides) :
                           Get(config, k) = global[k]
                    /\ "target" \notin (DOMAIN global) \cup (DOMAIN overrides)
                         => Get(config, "target") =
                              [kind |-> "array",
                               items |-> <<AppRoot(requests[r].app)>>]

\* '/a/' was served with k from manifest.config (both have k), idle from
\* the global config and version from manifest.config
C15_Witness ==
    \E r \in Reqs :
        /\ Served(r)
        /\ requests[r].path = PathA
        /\ manifestPromise = Fulfilled(ManifestAB)
        /\ upstream.config = JsonResponse(TRUE, GlobalConfig)
        /\ \E config \in Injected(r) :
              /\ Get(config, "k") = Str(<<"m">>)
              /\ Get(config, "idle") = Str(<<"9">>)
              /\ Get(config, "version") = Str(<<"1">>)

\* the attribute of a link or script element that holds its reference
ReferenceOf(element) == IF element.tag = "link" THEN "href" ELSE "src"

\* value starts with a URL scheme: a letter, then letters, digits, "+",
\* "-" or ".", then ":"
HasScheme(value) ==
    \E n \in 2..Len(value) :
        /\ value[n] = ":"
        /\ value[1] \in Range(UpperCase) \cup Range(LowerCase)
        /\ \A i \in 1..(n - 1) : value[i] \in AlphaNum \cup {"+", "-", "."}

\* value is neither absolute, root-relative nor protocol-relative
TrulyRelative(value) ==
    ~ HasScheme(value) /\ ~ StartsWith(value, <<"/">>)

\* C16: in a served document every link href and script src that is still
\* there is the original value prefixed with assetsUrl if the original is
\* truly relative, and the original value otherwise.
C16_RelocatesOnlyRelative ==
    \A r \in Reqs :
        Served(r) =>
            \A i \in DOMAIN InElems(r) :
                LET in == InElems(r)[i]
                    out == OutElems(r)[i]
                    attr == ReferenceOf(in)
                IN  (attr \in DOMAIN in.attrs /\ attr \in DOMAIN out.attrs) =>
                        out.attrs[attr] =
                            IF TrulyRelative(in.attrs[attr])
                            THEN assetsUrl \o in.attrs[attr]
                            ELSE in.attrs[attr]

EndsWith(s, p) == Len(s) >= Len(p) /\ SubSeq(s, Len(s) - Len(p) + 1, Len(s)) = p

\* the src of the script is a path ending in '/config.js'
IsConfigLoader(script) ==
    /\ "src" \in DOMAIN script.attrs
    /\ EndsWith(script.attrs["src"], <<"/","c","o","n","f","i","g",".","j","s">>)

\* C17: in a served document a script has lost its src and has the injected
\* configuration as content if and only if its original src ends in
\* '/config.js'; every other script that had a src keeps a src and its
\* content.
C17_PatchesOnlyConfigLoaders ==
    \A r \in Reqs :
        Served(r) =>
            \A i \in DOMAIN InElems(r) :
                LET in == InElems(r)[i]
                    out == OutElems(r)[i]
                IN  in.tag = "script" =>
                        /\ Patched(out) <=> IsConfigLoader(in)
                        /\ Patched(out) => "src" \notin DOMAIN out.attrs
                        /\ ("src" \in DOMAIN in.attrs /\ ~ IsConfigLoader(in)) =>
                               /\ "src" \in DOMAIN out.attrs
                               /\ out.content = in.content

\* C18: a served document has the elements of the fetched one, in the same
\* order, and an element without its href (link) or src (script) comes out
\* as it went in.
C18_ElementsPreserved ==
    \A r \in Reqs :
        Served(r) =>
            /\ Len(OutElems(r)) = Len(InElems(r))
            /\ \A i \in DOMAIN InElems(r) :
                LET in == InElems(r)[i]
                    out == OutElems(r)[i]
                IN  /\ out.tag = in.tag
                    /\ ReferenceOf(in) \notin DOMAIN in.attrs => out = in

CacheControl(r) == requests[r].response.headers["Cache-Control"]

\* the header value 'max-age=<client>' or 'max-age=<client>, s-maxage=<shared>'
CacheControlValue(client, shared) ==
    <<"max-age", "=", ToString(client.n)>> \o
    (IF shared.kind = "undefined" THEN <<>>
     ELSE <<", ", "s-maxage", "=", ToString(shared.n)>>)

\* C19: the Cache-Control of a response is exactly 'max-age=<clientAge>' on
\* the branches without a shared-cache value (404, 500, and 301/200 when
\* the options carry no cacheAge) and exactly
\* 'max-age=<clientAge>, s-maxage=<cacheAge>' on the others, 'max-age=60,
\* s-maxage=300' for a 301 or 200 under the default options.
C19_CacheControlExact ==
    \A r \in Reqs :
        Done(r) =>
            CacheControl(r) =
                IF Status(r) = 500
                THEN CacheControlValue(Num(ErrorClientAge), Undefined)
                ELSE IF Status(r) = 404
                THEN CacheControlValue(Get(requests[r].options, "clientAge"), Undefined)
                ELSE CacheControlValue(Get(requests[r].options, "clientAge"),
                                       Get(requests[r].options, "cacheAge"))

\* the directives of a header value, without the separators
Directives(value) == SelectSeq(value, LAMBDA piece : piece # ", ")

\* C20: a 404 carries the client max-age of the options and nothing else,
\* a 500 the client max-age 10 and nothing else: no 404 or 500 carries a
\* shared-cache directive, whatever the options.
C20_ErrorsNotSharedCacheable ==
    \A r \in Reqs :
        Done(r) =>
            /\ Status(r) = 404 =>
                 Directives(CacheControl(r)) =
                   <<"max-age", "=", ToString(Get(requests[r].options, "clientAge").n)>>
            /\ Status(r) = 500 =>
                 Directives(CacheControl(r)) =
                   <<"max-age", "=", ToString(ErrorClientAge)>>

\* a 404 and then nothing but max-age=5 although the caller passed
\* cacheAge 7
C20_Witness ==
    \E r \in Reqs :
        /\ Done(r)
        /\ Status(r) = 404
        /\ requests[r].options = routeOptions(ShortOptions)
        /\ Directives(CacheControl(r)) = <<"max-age", "=", "5">>

\* the config fetch came back as a failure of _fetch
ConfigFetchFailed == upstream.config # NoResponse /\ fetchConfig(upstream.config) = Rejected

\* C21: when the config fetch has failed and route('/<app>/') has returned
\* 500 with the manifest and the index of the app fetched, the manifest
\* slot still holds the manifest and the index slot the index, the config
\* slot does not hold the failure, and a call made after that one returned
\* has started a second config fetch and no second manifest or index fetch.
C21_FailureConfinedToSlot ==
    \A r \in Reqs :
        (/\ Done(r)
         /\ Status(r) = 500
         /\ requests[r].html # Undefined
         /\ ConfigFetchFailed)
        => /\ manifestPromise.state = "fulfilled"
           /\ indexesPromise.state = "fulfilled"
           /\ indexesPromise.value[requests[r].app] = requests[r].html
           /\ configPromise.state # "rejected"
           /\ \A q \in Reqs :
                (r \in requests[q].after /\ requests[q].pc # "idle") =>
                    /\ fetches.config = 2
                    /\ fetches.manifest = 1
                    /\ indexFetches[requests[r].app] = 1

\* the manifest fetch came back as a failure of _fetch
ManifestFetchFailed ==
    upstream.manifest # NoResponse /\ fetchManifest(upstream.manifest) = Rejected

\* C22: when the manifest fetch has failed, every finished route call has
\* returned the 500 Internal error response, whatever its path: '/', a
\* malformed path, an unknown app, an appcache path or '/<app>/'.
C22_NoManifestNoDecision ==
    \A r \in Reqs :
        (Done(r) /\ ManifestFetchFailed) =>
            requests[r].response = InternalErrorResponse

\* the malformed path '/a.b/' was answered 500, not 404, after the manifest
\* fetch had failed
C22_Witness ==
    \E r \in Reqs :
        /\ Done(r)
        /\ ManifestFetchFailed
        /\ requests[r].path = PathDotted
        /\ Status(r) = 500

\* path is '/<app>' for an app of the manifest
IsAppRedirectPath(path) == \E a \in ManifestApps : path = <<"/">> \o a

\* path is malformed, names an unknown app or is an appcache path
IsNotFoundPath(path) ==
    \/ path # Root /\ ~ HasAppShape(path)
    \/ \E n \in 1..Len(path) :
          HasShape(path, n) /\ SubSeq(path, 2, n + 1) \notin ManifestApps
    \/ \E a \in ManifestApps : IsAppcachePath(path, a)

\* C23: with the manifest available, '/' and '/<app>' are answered 301 and
\* malformed paths, unknown apps and appcache paths 404, in every state of
\* the config and index fetches (pending, failed or succeeded); a 500 is
\* only returned to a request that went on to the index of an app.
C23_FailuresOnlyHitContent ==
    \A r \in Reqs :
        (Done(r) /\ ManifestAvailable) =>
            /\ (requests[r].path = Root \/ IsAppRedirectPath(requests[r].path))
                  => Status(r) = 301
            /\ IsNotFoundPath(requests[r].path) => Status(r) = 404
            /\ Status(r) = 500 =>
                  /\ requests[r].app \in ManifestApps
                  /\ StartsWith(requests[r].path, AppRoot(requests[r].app))

\* '/a' was redirected although the config fetch and an index fetch had
\* failed
C23_Witness ==
    \E r \in Reqs :
        /\ Done(r)
        /\ manifestPromise = Fulfilled(ManifestAB)
        /\ requests[r].path = PathNoSlash
        /\ configPromise.state = "rejected"
        /\ indexesPromise.state = "rejected"
        /\ Status(r) = 301

\* path is '/<app>/' or '/<app>/<sub>' and not an appcache path
IsContentPath(path, app) ==
    StartsWith(path, AppRoot(app)) /\ ~ IsAppcachePath(path, app)

\* C24: a call for the document of an app returns 200 only when the index
\* the Router holds for that app is a non-empty string; when the index
\* fetch of an app of the manifest came back with an empty body, every
\* finished call for that app has returned 500, a call made after an
\* earlier one returned included.
C24_EmptyIndexIsFailure ==
    \A r \in Reqs : \A a \in Apps :
        (/\ Done(r)
         /\ ManifestAvailable
         /\ a \in ManifestApps
         /\ IsContentPath(requests[r].path, a))
        => /\ Status(r) = 200 =>
                /\ indexesPromise.state = "fulfilled"
                /\ indexesPromise.value[a].kind = "string"
                /\ indexesPromise.value[a] # EmptyString
           /\ (indexesPromise.state = "fulfilled" /\ indexesPromise.value[a] = EmptyString)
                => requests[r].response = InternalErrorResponse

\* '/a/' was answered 500 for the empty index of 'a', and so was a second
\* call made after the first had returned, while the config was there
C24_Witness ==
    \E r1, r2 \in Reqs :
        /\ Done(r1) /\ Done(r2)
        /\ r1 \in requests[r2].after
        /\ requests[r1].path = PathA /\ requests[r2].path = PathA
        /\ manifestPromise = Fulfilled(ManifestAB)
        /\ indexesPromise.state = "fulfilled"
        /\ indexesPromise.value[AppA] = EmptyString
        /\ configPromise.state = "fulfilled"
        /\ Status(r1) = 500 /\ Status(r2) = 500

\* C25: every route call that was made eventually returns a response, in
\* every interleaving of the callers and of the fetches, when every fetch
\* that was started settles.
C25_EveryCallReturns ==
    \A r \in Reqs : (requests[r].pc # "idle") ~> Done(r)

\* two overlapping calls for '/a/' have both returned, with 500, after the
\* config fetch they both awaited had failed
C25_Witness ==
    \E r1, r2 \in Reqs :
        /\ r1 # r2
        /\ Done(r1) /\ Done(r2)
        /\ requests[r1].after = {} /\ requests[r2].after = {}
        /\ requests[r1].html # Undefined /\ requests[r2].html # Undefined
        /\ configPromise.state = "rejected"
        /\ Status(r1) = 500 /\ Status(r2) = 500

\* C26: each handler has constructed at most one Router per pool key, the
\* Router an event was routed by is the one the pool holds for its key, and
\* its assetsUrl and apiUrl are the ASSETS_URL and API_URL stage variables
\* of that event, also when a later event of a stage comes with other stage
\* variables.
C26_PoolRoutesByEventConfig ==
    /\ \A h \in Handlers : \A key \in DOMAIN constructed[h] : constructed[h][key] <= 1
    /\ handled # NoInvocation =>
         /\ handled.router = routers[handled.handler][handled.key]
         /\ handled.router._assetsUrl = handled.event.stageVariables.ASSETS_URL
         /\ handled.router._apiUrl = handled.event.stageVariables.API_URL

====
